---- MODULE Spec2Model ----
(***************************************************************************)
(* Futsal pitch booking system: the booking_requests table, the            *)
(* DatabaseStorage operations over it (server/storage.ts) and the conflict *)
(* check that decides whether a requested date / slot list / pitch type    *)
(* collides with the approved bookings.                                    *)
(***************************************************************************)
EXTENDS Integers, Sequences, FiniteSets, TLC

(***************************************************************************)
(* Bounds of the model.                                                    *)
(***************************************************************************)
\* rows the booking_requests table may hold
MaxBookings == 2

(***************************************************************************)
(* Input domains.                                                          *)
(***************************************************************************)
\* dates asked about; bookings are made for the first one, so the second
\* is a date that never has a record of its own
Dates == {"2025-06-01", "2025-06-02"}
BookingDates == {"2025-06-01"}
\* time_slots values: text arrays, repeated elements allowed
SlotLists ==
  { <<"18:00", "18:30">>, <<"18:30", "19:00">>, <<"19:00", "19:00">> }
\* the two admins deciding on pending requests at the same time
Approvers == {"a1", "a2"}
PitchTypes == {"single_court", "full_pitch"}
\* the requester fields of a booking, one name standing for them
Requesters == {"Ana"}
Statuses == {"pending", "approved", "declined"}

\* an absent optional value (excludeBookingId / adminNotes undefined, NULL column)
NoId == 0
NoNotes == "null"
Ids == 1..MaxBookings

VARIABLES
  bookings,   \* the booking_requests table: a sequence of rows in table order
  last,       \* the last storage call: its operation, arguments and result
  approver,   \* per approver: the pending request it decides on and its progress
  view,       \* the availability request in flight: its position and its two reads
  live,       \* history: ids pending or approved at every moment of that request
  sessions,   \* the sessions map of the server: session id -> expiresAt
  now,        \* the server clock, in units of the session lifetime
  issued,     \* history: per session id handed out, its login time and whether
              \* it was logged out or turned away as expired since
  wizard,     \* the booking page: its step and the values of its form
  client      \* the admin pages of one browser tab: location, stored session
              \* id, the bookings query and the effects still to run

vars == <<bookings, last, approver, view, live, sessions, now, issued, wizard, client>>

(***************************************************************************)
(* Array helpers of the source language.                                   *)
(***************************************************************************)
includes(arr, x) == \E i \in DOMAIN arr : arr[i] = x

(***************************************************************************)
(* Queries of DatabaseStorage.                                             *)
(***************************************************************************)
\* the query without its status condition
getBookingsByDate(rows, date) ==
  SelectSeq(rows, LAMBDA b : b.bookingDate = date)

\* the query without its date condition
getApprovedBookings(rows, date) ==
  SelectSeq(rows, LAMBDA b : b.status = "approved")

getApprovedBookingsByDate(rows, date) ==
  SelectSeq(rows, LAMBDA b : b.bookingDate = date /\ b.status = "approved")

\* the query by date and status without its status condition
getBookingsByDateAnyStatus(rows, date, status) ==
  SelectSeq(rows, LAMBDA b : b.bookingDate = date)

getBookingsByDateAndStatus(rows, date, status) ==
  SelectSeq(rows, LAMBDA b : b.bookingDate = date /\ b.status = status)

getBookingById(rows, id) ==
  SelectSeq(rows, LAMBDA b : b.id = id)

(***************************************************************************)
(* checkConflicts: the loop over the approved bookings of the date.        *)
(***************************************************************************)
\* the loop without its skip of the excluded booking
neverExcluded(booking, excludeBookingId) == FALSE

\* `if (excludeBookingId && booking.id === excludeBookingId) continue`
isExcluded(booking, excludeBookingId) ==
  excludeBookingId # NoId /\ booking.id = excludeBookingId

\* every requested slot as soon as one of them is in the booking
overlappingAll(booking, timeSlots) ==
  IF \E i \in DOMAIN timeSlots : includes(booking.timeSlots, timeSlots[i])
  THEN timeSlots ELSE <<>>

\* the filter applied to the first requested slot alone
overlappingFirst(booking, timeSlots) ==
  IF timeSlots = <<>> THEN <<>>
  ELSE SelectSeq(<<Head(timeSlots)>>, LAMBDA slot : includes(booking.timeSlots, slot))

\* timeSlots.filter(slot => booking.timeSlots.includes(slot))
overlappingSlots(booking, timeSlots) ==
  SelectSeq(timeSlots, LAMBDA slot : includes(booking.timeSlots, slot))

\* overlappingSlots.length >= 0
hasOverlapOrNone(overlapping) == Len(overlapping) >= 0

\* overlappingSlots.length > 1
hasOverlapMany(overlapping) == Len(overlapping) > 1

\* overlappingSlots.length > 0
hasOverlap(overlapping) == Len(overlapping) > 0

\* the rule without its two full_pitch disjuncts
isConflictSameType(booking, pitchType) ==
  booking.pitchType = pitchType

\* the rule without the disjunct for a full_pitch booking
isConflictRequestOnly(booking, pitchType) ==
  \/ pitchType = "full_pitch"
  \/ booking.pitchType = pitchType

isConflict(booking, pitchType) ==
  \/ booking.pitchType = "full_pitch"
  \/ pitchType = "full_pitch"
  \/ booking.pitchType = pitchType

\* conflictingSlots.push(...overlappingSlots.filter(s => !conflictingSlots.includes(s)))
\* the filter is evaluated against conflictingSlots as it is before the push
pushSlots(conflictingSlots, overlapping) ==
  conflictingSlots \o SelectSeq(overlapping, LAMBDA s : ~includes(conflictingSlots, s))

RECURSIVE conflictLoop(_, _, _, _, _)
conflictLoop(approvedBookings, timeSlots, pitchType, excludeBookingId, acc) ==
  IF approvedBookings = <<>> THEN acc
  ELSE
    LET booking == Head(approvedBookings)
        overlapping == overlappingSlots(booking, timeSlots)
        next ==
          IF isExcluded(booking, excludeBookingId) THEN acc
          ELSE IF hasOverlap(overlapping) /\ isConflict(booking, pitchType)
          THEN [conflictingBookings |-> Append(acc.conflictingBookings, booking),
                conflictingSlots |-> pushSlots(acc.conflictingSlots, overlapping)]
          ELSE acc
    IN conflictLoop(Tail(approvedBookings), timeSlots, pitchType, excludeBookingId, next)

checkConflicts(rows, date, timeSlots, pitchType, excludeBookingId) ==
  LET approvedBookings == getApprovedBookingsByDate(rows, date)
      acc == conflictLoop(approvedBookings, timeSlots, pitchType, excludeBookingId,
                          [conflictingBookings |-> <<>>, conflictingSlots |-> <<>>])
  IN [hasConflict |-> Len(acc.conflictingBookings) > 0,
      conflictingBookings |-> acc.conflictingBookings,
      conflictingSlots |-> acc.conflictingSlots]

(***************************************************************************)
(* GET /api/availability/:date: the view built from the approved and the   *)
(* pending bookings of the date.                                           *)
(***************************************************************************)
\* dates a client may put in the path; the last one fails /^\d{4}-\d{2}-\d{2}$/
PathDates == Dates \cup {"2025-6-1"}

dateFormatOk(date) == date \in Dates

\* the inner loop: one entry per element of booking.timeSlots, in stored order
slotEntries(booking, status) ==
  [i \in 1..Len(booking.timeSlots) |->
     [timeSlot |-> booking.timeSlots[i], pitchType |-> booking.pitchType,
      status |-> status]]

\* the outer loop: pushes the entries of each booking of the list in turn
RECURSIVE pushEntries(_, _, _)
pushEntries(takenSlots, bookingList, status) ==
  IF bookingList = <<>> THEN takenSlots
  ELSE pushEntries(takenSlots \o slotEntries(Head(bookingList), status),
                   Tail(bookingList), status)

\* the two loops in the opposite order
pendingThenApproved(approvedBookings, pendingBookings) ==
  pushEntries(pushEntries(<<>>, pendingBookings, "pending"), approvedBookings, "approved")

approvedThenPending(approvedBookings, pendingBookings) ==
  pushEntries(pushEntries(<<>>, approvedBookings, "approved"), pendingBookings, "pending")

\* the number of slot entries of the list instead of its length
entriesCount(bookingList) == Len(pushEntries(<<>>, bookingList, "any"))

\* approvedBookings.length, pendingBookings.length
bookingsCount(bookingList) == Len(bookingList)

availabilityView(date, approvedBookings, pendingBookings) ==
  [date |-> date,
   takenSlots |-> approvedThenPending(approvedBookings, pendingBookings),
   approvedBookingsCount |-> bookingsCount(approvedBookings),
   pendingBookingsCount |-> bookingsCount(pendingBookings)]

(***************************************************************************)
(* Writes of DatabaseStorage.                                              *)
(***************************************************************************)
\* the row INSERT ... VALUES (booking) RETURNING yields: id and created_at take
\* their column defaults (the time of the insert, counted in inserts), status
\* and admin_notes take theirs when booking has no such key
insertRow(rows, booking) ==
  [id |-> Len(rows) + 1,
   name |-> booking.name,
   createdAt |-> Len(rows) + 1,
   bookingDate |-> booking.bookingDate,
   timeSlots |-> booking.timeSlots,
   pitchType |-> booking.pitchType,
   status |-> IF "status" \in DOMAIN booking THEN booking.status ELSE "pending",
   adminNotes |-> IF "adminNotes" \in DOMAIN booking THEN booking.adminNotes ELSE NoNotes]

\* an update with a condition on the current status: WHERE id AND status = 'pending'
updateRowsFromPending(rows, id, status, adminNotes) ==
  [i \in DOMAIN rows |->
     IF rows[i].id = id /\ rows[i].status = "pending"
     THEN [rows[i] EXCEPT !.status = status,
                          !.adminNotes = IF adminNotes = NoNotes THEN @ ELSE adminNotes]
     ELSE rows[i]]

\* an update that also stamps the row it changes
updateRowsStamping(rows, id, status, adminNotes) ==
  [i \in DOMAIN rows |->
     IF rows[i].id = id
     THEN [rows[i] EXCEPT !.status = status,
                          !.adminNotes = IF adminNotes = NoNotes THEN @ ELSE adminNotes,
                          !.createdAt = Len(rows) + 1]
     ELSE rows[i]]

\* an update that deletes the row it declines
updateRowsDeleting(rows, id, status, adminNotes) ==
  IF status = "declined"
  THEN SelectSeq(rows, LAMBDA b : b.id # id)
  ELSE [i \in DOMAIN rows |->
          IF rows[i].id = id THEN [rows[i] EXCEPT !.status = status] ELSE rows[i]]

\* UPDATE ... SET status, admin_notes WHERE id: an undefined adminNotes is
\* left out of the SET clause
updateRows(rows, id, status, adminNotes) ==
  [i \in DOMAIN rows |->
     IF rows[i].id = id
     THEN [rows[i] EXCEPT !.status = status,
                          !.adminNotes = IF adminNotes = NoNotes THEN @ ELSE adminNotes]
     ELSE rows[i]]

(***************************************************************************)
(* State machine of the storage layer.                                     *)
(***************************************************************************)
Idle == [pc |-> "idle", id |-> NoId, clear |-> FALSE]

NoView == [pc |-> "idle"]

\* new Map()
NoSessions == [s \in {} |-> 0]

\* useState(1) and the form's defaultValues; a text field is kept as its
\* length, which is all that z.string().min reads
NewWizard ==
  [ step |-> 1,
    values |-> [ name |-> 0, email |-> "", phone |-> 0, age |-> 18,
                 reason |-> 0, estimatedAttendees |-> 10,
                 pitchType |-> "single_court",
                 bookingDate |-> "", timeSlots |-> <<>>, frequency |-> "one_off" ],
    isPending |-> FALSE,
    returned |-> FALSE ]

\* a request without the x-session-id header
NoSession == "none"

NoError == 0

\* a new QueryClient: nothing cached, nothing in flight
NoQuery == [data |-> FALSE, error |-> NoError, fetching |-> FALSE]

\* the browser on the login page with an empty localStorage; entered says
\* that the page's mount effects have not run yet
NewClient ==
  [page |-> "/admin", sessionId |-> NoSession, entered |-> TRUE, query |-> NoQuery]

\* no session id handed out yet
NoneIssued == [s \in {} |-> 0]

Init ==
  /\ bookings = <<>>
  /\ last = [op |-> "none"]
  /\ approver = [a \in Approvers |-> Idle]
  /\ view = NoView
  /\ live = {}
  /\ sessions = NoSessions
  /\ now = 0
  /\ issued = NoneIssued
  /\ wizard = NewWizard
  /\ client = NewClient

createBooking(booking) ==
  /\ Len(bookings) < MaxBookings
  /\ bookings' = Append(bookings, insertRow(bookings, booking))
  /\ last' = [op |-> "createBooking", result |-> insertRow(bookings, booking)]
  /\ UNCHANGED approver

updateBookingStatus(id, status, adminNotes) ==
  /\ bookings' = updateRows(bookings, id, status, adminNotes)
  /\ last' = [op |-> "updateBookingStatus", id |-> id, status |-> status,
              result |-> getBookingById(updateRows(bookings, id, status, adminNotes), id)]
  /\ UNCHANGED approver

\* a call answered from the result of the previous check of the same date
checkConflictsCached(date, timeSlots, pitchType, excludeBookingId) ==
  /\ last' = [op |-> "checkConflicts", date |-> date, timeSlots |-> timeSlots,
              pitchType |-> pitchType, excludeBookingId |-> excludeBookingId,
              result |-> IF last.op = "checkConflicts" /\ last.date = date
                         THEN last.result
                         ELSE checkConflicts(bookings, date, timeSlots, pitchType,
                                             excludeBookingId)]
  /\ UNCHANGED <<bookings, approver>>

checkConflictsCall(date, timeSlots, pitchType, excludeBookingId) ==
  /\ last' = [op |-> "checkConflicts", date |-> date, timeSlots |-> timeSlots,
              pitchType |-> pitchType, excludeBookingId |-> excludeBookingId,
              result |-> checkConflicts(bookings, date, timeSlots, pitchType,
                                        excludeBookingId)]
  /\ UNCHANGED <<bookings, approver>>

\* the availability handler when no write falls between its two queries
getAvailabilityCall(date) ==
  /\ last' =
       IF dateFormatOk(date)
       THEN [op |-> "getAvailability", date |-> date, code |-> 200,
             result |-> availabilityView(date, getApprovedBookingsByDate(bookings, date),
                                         getBookingsByDateAndStatus(bookings, date, "pending"))]
       ELSE [op |-> "getAvailability", date |-> date, code |-> 400]
  /\ UNCHANGED <<bookings, approver>>

Bookings ==
  [name : Requesters, bookingDate : BookingDates, timeSlots : SlotLists,
   pitchType : PitchTypes]

CreateBooking ==
  \E booking \in Bookings : createBooking(booking) /\ UNCHANGED <<view, live, sessions, now, issued, wizard, client>>

UpdateBookingStatus ==
  \E id \in Ids, status \in Statuses :
    updateBookingStatus(id, status, NoNotes) /\ UNCHANGED <<view, live, sessions, now, issued, wizard, client>>

CheckConflicts ==
  \E date \in Dates, timeSlots \in SlotLists, pitchType \in PitchTypes,
     excludeBookingId \in {NoId} \cup Ids :
    checkConflictsCall(date, timeSlots, pitchType, excludeBookingId)
      /\ UNCHANGED <<view, live, sessions, now, issued, wizard, client>>

GetAvailability ==
  \E date \in PathDates : getAvailabilityCall(date) /\ UNCHANGED <<view, live, sessions, now, issued, wizard, client>>

Next == CreateBooking \/ UpdateBookingStatus \/ CheckConflicts \/ GetAvailability

Spec == Init /\ [][Next]_vars

(***************************************************************************)
(* Two approvers deciding on pending requests: each runs checkConflicts    *)
(* for a request that is pending and, on seeing no conflict, calls         *)
(* updateBookingStatus(id, "approved").  The two calls of one approver are *)
(* separate storage calls; calls of the other approver may fall between.   *)
(***************************************************************************)
approverCheck(a, id) ==
  /\ approver[a].pc = "idle"
  /\ \E i \in DOMAIN bookings :
       /\ bookings[i].id = id
       /\ bookings[i].status = "pending"
       /\ approver' =
            [approver EXCEPT ![a] =
               [pc |-> "checked", id |-> id,
                clear |-> ~checkConflicts(bookings, bookings[i].bookingDate,
                                          bookings[i].timeSlots, bookings[i].pitchType,
                                          id).hasConflict]]
  /\ UNCHANGED <<bookings, last>>

approverApprove(a) ==
  /\ approver[a].pc = "checked"
  /\ approver[a].clear
  /\ bookings' = updateRows(bookings, approver[a].id, "approved", NoNotes)
  /\ approver' = [approver EXCEPT ![a].pc = "done"]
  /\ UNCHANGED last

approverSkip(a) ==
  /\ approver[a].pc = "checked"
  /\ ~approver[a].clear
  /\ approver' = [approver EXCEPT ![a].pc = "done"]
  /\ UNCHANGED <<bookings, last>>

ApproverCheck ==
  \E a \in Approvers, id \in Ids : approverCheck(a, id) /\ UNCHANGED <<view, live, sessions, now, issued, wizard, client>>

ApproverApprove == \E a \in Approvers : approverApprove(a) /\ UNCHANGED <<view, live, sessions, now, issued, wizard, client>>

ApproverSkip == \E a \in Approvers : approverSkip(a) /\ UNCHANGED <<view, live, sessions, now, issued, wizard, client>>

NextRace == CreateBooking \/ ApproverCheck \/ ApproverApprove \/ ApproverSkip

SpecRace == Init /\ [][NextRace]_vars

(***************************************************************************)
(* The availability handler as it runs: its two queries are separate       *)
(* awaits, so a status write of another request can fall between them.     *)
(* Bookings are created here with their slots in either order, as the      *)
(* creation endpoint accepts them.                                         *)
(***************************************************************************)
AnyOrderSlotLists == { <<"18:00", "18:30">>, <<"18:30", "18:00">> }

\* first await: storage.getApprovedBookingsByDate(date)
availReadApproved(date) ==
  /\ view.pc \in {"idle", "done"}
  /\ dateFormatOk(date)
  /\ view' = [pc |-> "readApproved", date |-> date,
              approvedBookings |-> getApprovedBookingsByDate(bookings, date)]
  /\ live' = { bookings[i].id : i \in { j \in DOMAIN bookings :
                 /\ bookings[j].bookingDate = date
                 /\ bookings[j].status \in {"pending", "approved"} } }
  /\ UNCHANGED <<bookings, last, approver, sessions, now, issued, wizard, client>>

\* second await, the two loops and the response
availReadPending ==
  /\ view.pc = "readApproved"
  /\ LET pendingBookings == getBookingsByDateAndStatus(bookings, view.date, "pending")
     IN view' = [pc |-> "done", date |-> view.date,
                 approvedBookings |-> view.approvedBookings,
                 pendingBookings |-> pendingBookings,
                 result |-> availabilityView(view.date, view.approvedBookings,
                                             pendingBookings)]
  /\ UNCHANGED <<bookings, last, approver, live, sessions, now, issued, wizard, client>>

AvailReadApproved == \E date \in Dates : availReadApproved(date)

AvailReadPending == availReadPending

\* a status update of another request; a record declined while the view is
\* being read leaves the history set
StatusWrite ==
  \E id \in Ids, status \in Statuses :
    /\ updateBookingStatus(id, status, NoNotes)
    /\ live' = IF view.pc = "readApproved" /\ status = "declined"
               THEN live \ {id} ELSE live
    /\ UNCHANGED <<view, sessions, now, issued, wizard, client>>

CreateBookingAnyOrder ==
  \E booking \in [name : Requesters, bookingDate : BookingDates,
                   timeSlots : AnyOrderSlotLists, pitchType : PitchTypes] :
    createBooking(booking) /\ UNCHANGED <<view, live, sessions, now, issued, wizard, client>>

NextAvail ==
  CreateBookingAnyOrder \/ StatusWrite \/ AvailReadApproved \/ AvailReadPending

SpecAvail == Init /\ [][NextAvail]_vars

(***************************************************************************)
(* POST /api/bookings: the request body is parsed by                       *)
(* insertBookingRequestSchema and the parsed value is inserted.            *)
(***************************************************************************)
\* the keys of the schema (those of the columns the model keeps)
InsertKeys == {"name", "bookingDate", "timeSlots", "pitchType"}

\* keys a body may carry beyond the schema: the columns the schema omits
ExtraFields ==
  { <<>>, [status |-> "approved"], [adminNotes |-> "vip"],
    [status |-> "declined", adminNotes |-> "vip"] }

Bodies ==
  { booking @@ extra :
      booking \in [name : Requesters, bookingDate : BookingDates,
                   timeSlots : SlotLists \cup {<<>>}, pitchType : PitchTypes],
      extra \in ExtraFields }

\* the schema without the min(1) of timeSlots
insertAcceptsNoSlots(body) ==
  /\ InsertKeys \subseteq DOMAIN body
  /\ body.pitchType \in PitchTypes
  /\ body.bookingDate # ""

\* the checks of the schema: required keys, timeSlots min(1), the pitch enum,
\* bookingDate min(1)
insertAccepts(body) ==
  /\ InsertKeys \subseteq DOMAIN body
  /\ Len(body.timeSlots) >= 1
  /\ body.pitchType \in PitchTypes
  /\ body.bookingDate # ""

\* a parse that keeps the keys the schema does not know
parseKeepAll(body) == body

\* a zod object schema strips the keys it does not know
parseInsert(body) == [k \in DOMAIN body \cap InsertKeys |-> body[k]]

postBooking(body) ==
  /\ IF insertAccepts(body)
     THEN /\ Len(bookings) < MaxBookings
          /\ bookings' = Append(bookings, insertRow(bookings, parseInsert(body)))
          /\ last' = [op |-> "POST /api/bookings", body |-> body, code |-> 201,
                      calls |-> <<"createBooking">>,
                      result |-> insertRow(bookings, parseInsert(body))]
     ELSE /\ bookings' = bookings
          /\ last' = [op |-> "POST /api/bookings", body |-> body, code |-> 400,
                      calls |-> <<>>]
  /\ UNCHANGED <<approver, view, live, sessions, now, issued, wizard, client>>

PostBooking == \E body \in Bodies : postBooking(body)

NextApi == PostBooking

SpecApi == Init /\ [][NextApi]_vars

(***************************************************************************)
(* The HTTP surface: the admin session map, the routes that ask for a      *)
(* session (listing, fetch by id, status update) and the public routes.    *)
(***************************************************************************)
\* how far the clock of the model runs
MaxTime == 2

\* expiresAt - Date.now() at login: 24 hours, the unit of the model clock
SessionTtl == 1

\* the ids generateSessionId() hands out
SessionIds == {"s1"}
Headers == {NoSession} \cup SessionIds

\* the admins table after registerRoutes
Admins == { [username |-> "admin", password |-> "admin123"] }

\* login bodies: the right password, a wrong one, none
Credentials ==
  { [username |-> "admin", password |-> "admin123"],
    [username |-> "admin", password |-> "letmein"],
    [username |-> "admin"] }

\* ids a client may put in the path: those of the table and one beyond it
PathIds == 1..(MaxBookings + 1)

\* bodies of the status update; the last status is not in the enum
PatchBodies ==
  { [status |-> "approved"], [status |-> "pending"],
    [status |-> "declined", adminNotes |-> "ok"],
    [status |-> "cancelled", adminNotes |-> "late"] }

\* bodies of the creation and of the conflict check sent over HTTP
Submissions ==
  [name : Requesters, bookingDate : BookingDates,
   timeSlots : { <<"18:00", "18:30">>, <<>> }, pitchType : {"single_court"}]

\* a submission that carries the two columns the insert schema omits
NotedSubmission ==
  [name |-> "Ana", bookingDate |-> "2025-06-01", timeSlots |-> <<"18:00", "18:30">>,
   pitchType |-> "single_court", status |-> "approved", adminNotes |-> "vip"]

\* a lookup that takes every session of the map, expired or not
hasSession(sessionId) ==
  /\ sessionId # NoSession
  /\ sessionId \in DOMAIN sessions

isAuthenticated(sessionId) ==
  /\ sessionId # NoSession
  /\ sessionId \in DOMAIN sessions
  /\ ~(now > sessions[sessionId])

\* sessions.delete(sessionId)
deleteSession(map, sessionId) == [s \in DOMAIN map \ {sessionId} |-> map[s]]

\* a check that sweeps every expired session out of the map
afterAuthCheckSweeping(sessionId) ==
  [s \in { t \in DOMAIN sessions : ~(now > sessions[t]) } |-> sessions[s]]

\* the map after isAuthenticated(sessionId): the expired session it finds is deleted
afterAuthCheck(sessionId) ==
  IF /\ sessionId # NoSession
     /\ sessionId \in DOMAIN sessions
     /\ now > sessions[sessionId]
  THEN deleteSession(sessions, sessionId)
  ELSE sessions

\* history: the id has been logged out
loggedOut(sessionId) ==
  [s \in DOMAIN issued |->
     IF s = sessionId THEN [issued[s] EXCEPT !.out = TRUE] ELSE issued[s]]

\* history: the id has been turned away as expired
turnedAway(sessionId) ==
  [s \in DOMAIN issued |->
     IF s = sessionId THEN [issued[s] EXCEPT !.rejected = TRUE] ELSE issued[s]]

\* history after isAuthenticated(sessionId): the id is turned away for good when
\* its session is found expired
issuedAfterAuthCheck(sessionId) ==
  IF /\ sessionId # NoSession
     /\ sessionId \in DOMAIN sessions
     /\ now > sessions[sessionId]
  THEN turnedAway(sessionId)
  ELSE issued

\* select ... order by created_at desc
RECURSIVE getBookings(_)
getBookings(rows) ==
  IF rows = <<>> THEN <<>> ELSE Append(getBookings(Tail(rows)), Head(rows))

\* a schema that takes any status string
updateAcceptsAny(body) == "status" \in DOMAIN body

\* updateBookingStatusSchema: status in the enum, adminNotes an optional string
updateAccepts(body) ==
  /\ "status" \in DOMAIN body
  /\ body.status \in Statuses

\* validatedData.adminNotes: undefined when the body has none
notesOf(body) == IF "adminNotes" \in DOMAIN body THEN body.adminNotes ELSE NoNotes

\* a handler that answers 200 whatever the update returned
foundAlways(result) == 200

\* `if (!booking) return res.status(404)`, else res.json(booking)
foundCode(result) == IF result = <<>> THEN 404 ELSE 200

\* checkConflictsSchema
checkAccepts(body) ==
  /\ {"bookingDate", "timeSlots", "pitchType"} \subseteq DOMAIN body
  /\ body.bookingDate # ""
  /\ Len(body.timeSlots) >= 1
  /\ body.pitchType \in PitchTypes

getBookingsRoute(sessionId) ==
  /\ last' =
       IF isAuthenticated(sessionId)
       THEN [op |-> "GET /api/bookings", sessionId |-> sessionId, code |-> 200,
             result |-> getBookings(bookings)]
       ELSE [op |-> "GET /api/bookings", sessionId |-> sessionId, code |-> 401]
  /\ sessions' = afterAuthCheck(sessionId)
  /\ issued' = issuedAfterAuthCheck(sessionId)
  /\ UNCHANGED <<bookings, approver, view, live, now>>

getBookingRoute(sessionId, id) ==
  /\ last' =
       IF ~isAuthenticated(sessionId)
       THEN [op |-> "GET /api/bookings/:id", sessionId |-> sessionId, id |-> id,
             code |-> 401]
       ELSE [op |-> "GET /api/bookings/:id", sessionId |-> sessionId, id |-> id,
             code |-> foundCode(getBookingById(bookings, id)),
             result |-> getBookingById(bookings, id)]
  /\ sessions' = afterAuthCheck(sessionId)
  /\ issued' = issuedAfterAuthCheck(sessionId)
  /\ UNCHANGED <<bookings, approver, view, live, now>>

patchStatusRoute(sessionId, id, body) ==
  /\ IF ~isAuthenticated(sessionId)
     THEN /\ bookings' = bookings
          /\ last' = [op |-> "PATCH /api/bookings/:id/status", sessionId |-> sessionId,
                      id |-> id, body |-> body, code |-> 401]
     ELSE IF ~updateAccepts(body)
     THEN /\ bookings' = bookings
          /\ last' = [op |-> "PATCH /api/bookings/:id/status", sessionId |-> sessionId,
                      id |-> id, body |-> body, code |-> 400]
     ELSE LET rows == updateRows(bookings, id, body.status, notesOf(body))
              result == getBookingById(rows, id)
          IN /\ bookings' = rows
             /\ last' = [op |-> "PATCH /api/bookings/:id/status",
                         sessionId |-> sessionId, id |-> id, body |-> body,
                         code |-> foundCode(result), result |-> result]
  /\ sessions' = afterAuthCheck(sessionId)
  /\ issued' = issuedAfterAuthCheck(sessionId)
  /\ UNCHANGED <<approver, view, live, now>>

\* a pre-check that also stores the candidate it was asked about
postCheckConflictsStoring(body) ==
  /\ checkAccepts(body)
  /\ Len(bookings) < MaxBookings
  /\ bookings' = Append(bookings, insertRow(bookings, body))
  /\ last' = [op |-> "POST /api/bookings/check-conflicts", body |-> body, code |-> 200,
              result |-> checkConflicts(bookings, body.bookingDate, body.timeSlots,
                                        body.pitchType, NoId)]
  /\ UNCHANGED <<approver, view, live, sessions, now, issued, wizard, client>>

postCheckConflictsRoute(body) ==
  /\ last' =
       IF checkAccepts(body)
       THEN [op |-> "POST /api/bookings/check-conflicts", body |-> body, code |-> 200,
             result |-> checkConflicts(bookings, body.bookingDate, body.timeSlots,
                                       body.pitchType, NoId)]
       ELSE [op |-> "POST /api/bookings/check-conflicts", body |-> body, code |-> 400]
  /\ UNCHANGED <<bookings, approver, view, live, sessions, now, issued, wizard, client>>

\* a login that takes any password of an existing username
knowsUser(credentials) ==
  \E admin \in Admins : admin.username = credentials.username

\* `!admin || admin.password !== password` is false
knowsAdmin(credentials) ==
  \E admin \in Admins :
    admin.username = credentials.username /\ admin.password = credentials.password

loginRoute(credentials, sessionId) ==
  /\ IF ~({"username", "password"} \subseteq DOMAIN credentials)
     THEN /\ sessions' = sessions
          /\ issued' = issued
          /\ last' = [op |-> "POST /api/admin/login", credentials |-> credentials,
                      code |-> 400]
     ELSE IF ~knowsAdmin(credentials)
     THEN /\ sessions' = sessions
          /\ issued' = issued
          /\ last' = [op |-> "POST /api/admin/login", credentials |-> credentials,
                      code |-> 401]
     ELSE /\ sessions' = [s \in DOMAIN sessions \cup {sessionId} |->
                            IF s = sessionId THEN now + SessionTtl ELSE sessions[s]]
          /\ issued' = [s \in DOMAIN issued \cup {sessionId} |->
                          IF s = sessionId
                          THEN [at |-> now, out |-> FALSE, rejected |-> FALSE]
                          ELSE issued[s]]
          /\ last' = [op |-> "POST /api/admin/login", credentials |-> credentials,
                      code |-> 200, sessionId |-> sessionId]
  /\ UNCHANGED <<bookings, approver, view, live, now>>

logoutRoute(sessionId) ==
  /\ sessions' = IF sessionId # NoSession THEN deleteSession(sessions, sessionId)
                 ELSE sessions
  /\ issued' = loggedOut(sessionId)
  /\ last' = [op |-> "POST /api/admin/logout", sessionId |-> sessionId, code |-> 200]
  /\ UNCHANGED <<bookings, approver, view, live, now>>

getMeRoute(sessionId) ==
  /\ last' = [op |-> "GET /api/admin/me", sessionId |-> sessionId,
              code |-> IF isAuthenticated(sessionId) THEN 200 ELSE 401]
  /\ sessions' = afterAuthCheck(sessionId)
  /\ issued' = issuedAfterAuthCheck(sessionId)
  /\ UNCHANGED <<bookings, approver, view, live, now>>

\* time passes on the server
tick ==
  /\ now < MaxTime
  /\ now' = now + 1
  /\ UNCHANGED <<bookings, last, approver, view, live, sessions, issued, wizard, client>>

GetBookings ==
  \E sessionId \in Headers : getBookingsRoute(sessionId) /\ UNCHANGED <<wizard, client>>

GetBooking ==
  \E sessionId \in Headers, id \in PathIds :
    getBookingRoute(sessionId, id) /\ UNCHANGED <<wizard, client>>

PatchStatus ==
  \E sessionId \in Headers, id \in PathIds, body \in PatchBodies :
    patchStatusRoute(sessionId, id, body) /\ UNCHANGED <<wizard, client>>

SubmitBooking == \E body \in Submissions \cup {NotedSubmission} : postBooking(body)

PostCheckConflicts == \E body \in Submissions : postCheckConflictsRoute(body)

\* generateSessionId() returns an id it has not returned before
Login ==
  \E credentials \in Credentials, sessionId \in SessionIds \ DOMAIN issued :
    loginRoute(credentials, sessionId) /\ UNCHANGED <<wizard, client>>

Logout == \E sessionId \in Headers : logoutRoute(sessionId) /\ UNCHANGED <<wizard, client>>

GetMe == \E sessionId \in Headers : getMeRoute(sessionId) /\ UNCHANGED <<wizard, client>>

Tick == tick

NextHttp ==
  \/ SubmitBooking \/ PostCheckConflicts \/ GetAvailability
  \/ GetBookings \/ GetBooking \/ PatchStatus
  \/ Login \/ Logout \/ GetMe \/ Tick

SpecHttp == Init /\ [][NextHttp]_vars

(***************************************************************************)
(* The session map on its own: two admins' browsers log in, ask who they   *)
(* are and log out while time passes.                                      *)
(***************************************************************************)
TwoSessionIds == {"s1", "s2"}

\* what a request may carry: no header, or an id, handed out or not
TwoHeaders == {NoSession} \cup TwoSessionIds

LoginTwo ==
  \E credentials \in Credentials, sessionId \in TwoSessionIds \ DOMAIN issued :
    loginRoute(credentials, sessionId) /\ UNCHANGED <<wizard, client>>

LogoutTwo ==
  \E sessionId \in TwoHeaders : logoutRoute(sessionId) /\ UNCHANGED <<wizard, client>>

GetMeTwo ==
  \E sessionId \in TwoHeaders : getMeRoute(sessionId) /\ UNCHANGED <<wizard, client>>

NextSession == LoginTwo \/ LogoutTwo \/ GetMeTwo \/ Tick

SpecSession == Init /\ [][NextSession]_vars

(***************************************************************************)
(* The booking wizard of the public page.  wizard.returned is history: the *)
(* visitor has gone to an earlier step through Back or Edit.               *)
(***************************************************************************)
MinName == 2
MinPhone == 8
MinAge == 16
MaxAge == 100
MinReason == 10
MinAttendees == 1
MaxAttendees == 50
LastStep == 4

\* the slots of TIME_SLOTS the visitor picks from, in the order of the list
TIME_SLOTS == <<"18:00", "18:30">>

WellFormedEmails == {"ana@hgh.org"}

\* what the visitor may put into each field
FieldValues ==
  [ name |-> {0, 1, MinName},
    email |-> {"", "ana"} \cup WellFormedEmails,
    phone |-> {0, MinPhone},
    age |-> {15, MinAge, 18, 101},
    reason |-> {9, MinReason},
    estimatedAttendees |-> {0, 10, 51},
    pitchType |-> PitchTypes,
    bookingDate |-> {""} \cup BookingDates,
    frequency |-> {"one_off", "weekly"} ]

\* the fields rendered at each step
STEPS ==
  [ n \in 1..LastStep |->
      CASE n = 1 -> {"name", "email", "phone", "age", "reason", "estimatedAttendees"}
        [] n = 2 -> {"pitchType"}
        [] n = 3 -> {"bookingDate", "timeSlots", "frequency"}
        [] OTHER -> {} ]

\* formSchema, field by field
formSchema(values, field) ==
  CASE field = "name" -> values.name >= MinName
    [] field = "email" -> values.email \in WellFormedEmails
    [] field = "phone" -> values.phone >= MinPhone
    [] field = "age" -> values.age >= MinAge /\ values.age <= MaxAge
    [] field = "reason" -> values.reason >= MinReason
    [] field = "estimatedAttendees" ->
         values.estimatedAttendees >= MinAttendees
           /\ values.estimatedAttendees <= MaxAttendees
    [] field = "pitchType" -> values.pitchType \in {"single_court", "full_pitch"}
    [] field = "bookingDate" -> values.bookingDate # ""
    [] field = "timeSlots" -> Len(values.timeSlots) >= 1
    [] field = "frequency" ->
         values.frequency \in {"one_off", "weekly", "fortnightly", "monthly"}

\* form.trigger(fields)
trigger(values, fields) == \A field \in fields : formSchema(values, field)

\* a wizard that lets every step pass
validateNothing(values, currentStep) == TRUE

validateStep(values, currentStep) ==
  CASE currentStep = 1 ->
         trigger(values, {"name", "email", "phone", "age", "reason", "estimatedAttendees"})
    [] currentStep = 2 -> trigger(values, {"pitchType"})
    [] currentStep = 3 -> trigger(values, {"bookingDate", "timeSlots", "frequency"})
    [] OTHER -> TRUE

\* [...value, slot].sort() on a list without repeats
withSlot(value, slot) ==
  SelectSeq(TIME_SLOTS, LAMBDA s : s = slot \/ \E i \in 1..Len(value) : value[i] = s)

\* field.onChange of a rendered input
onChange(field, v) ==
  /\ wizard.step \in 1..LastStep
  /\ field \in STEPS[wizard.step]
  /\ wizard' = [wizard EXCEPT !.values[field] = v]
  /\ UNCHANGED <<bookings, last, approver, view, live, sessions, now, issued, client>>

\* a click on a slot button
onClickSlot(slot) ==
  LET value == wizard.values.timeSlots
      isSelected == \E i \in 1..Len(value) : value[i] = slot
  IN  /\ "timeSlots" \in STEPS[wizard.step]
      /\ wizard' = [wizard EXCEPT !.values.timeSlots =
                      IF isSelected
                      THEN SelectSeq(value, LAMBDA s : s # slot)
                      ELSE withSlot(value, slot)]
      /\ UNCHANGED <<bookings, last, approver, view, live, sessions, now, issued, client>>

handleNext ==
  /\ wizard.step < LastStep
  /\ wizard' = IF validateStep(wizard.values, wizard.step)
               THEN [wizard EXCEPT !.step = IF wizard.step + 1 < LastStep
                                            THEN wizard.step + 1 ELSE LastStep]
               ELSE wizard
  /\ UNCHANGED <<bookings, last, approver, view, live, sessions, now, issued, client>>

handleBack ==
  /\ wizard.step > 1
  /\ wizard' = [wizard EXCEPT !.step = IF wizard.step - 1 > 1 THEN wizard.step - 1 ELSE 1,
                              !.returned = TRUE]
  /\ UNCHANGED <<bookings, last, approver, view, live, sessions, now, issued, client>>

onEdit(n) ==
  /\ wizard.step = LastStep
  /\ wizard' = [wizard EXCEPT !.step = n, !.returned = TRUE]
  /\ UNCHANGED <<bookings, last, approver, view, live, sessions, now, issued, client>>

\* the Submit button: handleSubmit validates the whole form, onSubmit starts
\* the request
onSubmit ==
  /\ wizard.step = LastStep
  /\ ~wizard.isPending
  /\ wizard' = IF \A n \in 1..LastStep : trigger(wizard.values, STEPS[n])
               THEN [wizard EXCEPT !.isPending = TRUE]
               ELSE wizard
  /\ UNCHANGED <<bookings, last, approver, view, live, sessions, now, issued, client>>

OnChange ==
  \E field \in DOMAIN FieldValues : \E v \in FieldValues[field] : onChange(field, v)

OnClickSlot == \E i \in 1..Len(TIME_SLOTS) : onClickSlot(TIME_SLOTS[i])

OnEdit == \E n \in 1..(LastStep - 1) : onEdit(n)

NextWizard == OnChange \/ OnClickSlot \/ handleNext \/ handleBack \/ OnEdit \/ onSubmit

SpecWizard == Init /\ [][NextWizard]_vars

(***************************************************************************)
(* The admin pages in one browser tab: the stored session id, the current  *)
(* route, and the cache entry of the ["/api/bookings"] query.  A request   *)
(* and its response are one step.  The admin acts only on a page that has  *)
(* settled: its effects have run and no request is in flight.              *)
(***************************************************************************)
Pages == {"/admin", "/admin/dashboard"}

\* the status throwIfResNotOk puts at the head of the error message
throwIfResNotOk(code) == IF code >= 200 /\ code < 300 THEN NoError ELSE code

includes401(error) == error = 401

Settled ==
  /\ ~client.entered
  /\ ~client.query.fetching
  /\ ~(client.page = "/admin/dashboard" /\ includes401(client.query.error))

\* useQuery on mount with staleTime: Infinity: cached data is never stale
\* and is not fetched again; without data the query is fetched
useQuery(query) ==
  IF query.data THEN query
  ELSE [data |-> FALSE, error |-> NoError, fetching |-> TRUE]

\* the admin moves to another route of the app (history, link)
setLocation(page) ==
  /\ Settled
  /\ page # client.page
  /\ client' = [client EXCEPT !.page = page, !.entered = TRUE]
  /\ UNCHANGED <<bookings, last, approver, view, live, sessions, now, issued, wizard>>

\* a full page load: localStorage survives, the query cache does not
loadPage(page) ==
  /\ Settled
  /\ client' = [client EXCEPT !.page = page, !.entered = TRUE, !.query = NoQuery]
  /\ UNCHANGED <<bookings, last, approver, view, live, sessions, now, issued, wizard>>

\* AdminLoginPage's mount effect
loginPageEffect ==
  /\ client.page = "/admin"
  /\ client.entered
  /\ client' = IF client.sessionId # NoSession
               THEN [client EXCEPT !.page = "/admin/dashboard"]
               ELSE [client EXCEPT !.entered = FALSE]
  /\ UNCHANGED <<bookings, last, approver, view, live, sessions, now, issued, wizard>>

\* AdminDashboardPage's mount: the session effect and the query's observer
dashboardMount ==
  /\ client.page = "/admin/dashboard"
  /\ client.entered
  /\ client' = IF client.sessionId = NoSession
               THEN [client EXCEPT !.page = "/admin", !.query = useQuery(client.query)]
               ELSE [client EXCEPT !.entered = FALSE, !.query = useQuery(client.query)]
  /\ UNCHANGED <<bookings, last, approver, view, live, sessions, now, issued, wizard>>

\* the default queryFn for ["/api/bookings"]
getQueryFn ==
  /\ client.query.fetching
  /\ getBookingsRoute(client.sessionId)
  /\ client' = [client EXCEPT !.query =
                  IF throwIfResNotOk(last'.code) = NoError
                  THEN [data |-> TRUE, error |-> NoError, fetching |-> FALSE]
                  ELSE [data |-> client.query.data,
                        error |-> throwIfResNotOk(last'.code),
                        fetching |-> FALSE]]
  /\ UNCHANGED wizard

\* AdminDashboardPage's effect on the query's error
dashboardErrorEffect ==
  /\ client.page = "/admin/dashboard"
  /\ ~client.entered
  /\ includes401(client.query.error)
  /\ client' = [client EXCEPT !.sessionId = NoSession, !.page = "/admin",
                              !.entered = TRUE]
  /\ UNCHANGED <<bookings, last, approver, view, live, sessions, now, issued, wizard>>

\* the login form: apiRequest stores the id of a successful login, onSuccess
\* navigates
loginMutation(credentials, sessionId) ==
  /\ Settled
  /\ client.page = "/admin"
  /\ loginRoute(credentials, sessionId)
  /\ client' = IF throwIfResNotOk(last'.code) = NoError
               THEN [client EXCEPT !.sessionId = sessionId,
                                   !.page = "/admin/dashboard", !.entered = TRUE]
               ELSE client
  /\ UNCHANGED wizard

\* the Logout button: apiRequest clears the id, onSuccess navigates
logoutMutation ==
  /\ Settled
  /\ client.page = "/admin/dashboard"
  /\ logoutRoute(client.sessionId)
  /\ client' = [client EXCEPT !.sessionId = NoSession, !.page = "/admin",
                              !.entered = TRUE]
  /\ UNCHANGED wizard

SetLocation == \E page \in Pages : setLocation(page)

LoadPage == \E page \in Pages : loadPage(page)

LoginMutation ==
  \E credentials \in Credentials, sessionId \in TwoSessionIds \ DOMAIN issued :
    loginMutation(credentials, sessionId)

\* what the admin does
AdminActs == SetLocation \/ LoadPage \/ LoginMutation \/ logoutMutation

\* what the pages do by themselves
PageActs == loginPageEffect \/ dashboardMount \/ getQueryFn \/ dashboardErrorEffect

NextClient == AdminActs \/ PageActs \/ Tick

SpecClient == Init /\ [][NextClient]_vars

\* effects run after the render that scheduled them and a request gets its
\* response
SpecClientFair == SpecClient /\ WF_vars(PageActs)

(***************************************************************************)
(* checkConflicts as a function of the table and of its arguments: the     *)
(* table is any one that creations and status updates produce, the slot    *)
(* list any a caller of the storage layer may pass, the empty one, a       *)
(* reordered one and one with a repeated element included.                 *)
(***************************************************************************)
StoredLists == { <<"18:00", "18:30">>, <<"19:00", "18:30">> }

RequestLists ==
  { <<>>, <<"18:00", "18:30">>, <<"18:30", "18:00">>, <<"18:30", "18:30", "18:00">>,
    <<"19:00">>, <<"19:00", "19:00">> }

\* what createBooking stored and updateBookingStatus has set since
StoredRows ==
  [name : Requesters, bookingDate : BookingDates, timeSlots : StoredLists, pitchType : PitchTypes,
   status : {"approved", "pending"}]

Tables == UNION { [1..n -> StoredRows] : n \in 0..MaxBookings }

tableOf(t) ==
  [i \in DOMAIN t |->
     [id |-> i, name |-> t[i].name, createdAt |-> i,
      bookingDate |-> t[i].bookingDate, timeSlots |-> t[i].timeSlots,
      pitchType |-> t[i].pitchType, status |-> t[i].status, adminNotes |-> NoNotes]]

InitPure ==
  /\ bookings \in { tableOf(t) : t \in Tables }
  /\ last = [op |-> "none"]
  /\ approver = [a \in Approvers |-> Idle]
  /\ view = NoView
  /\ live = {}
  /\ sessions = NoSessions
  /\ now = 0
  /\ issued = NoneIssued
  /\ wizard = NewWizard
  /\ client = NewClient

CheckConflictsAny ==
  \E date \in Dates, timeSlots \in RequestLists, pitchType \in PitchTypes,
     excludeBookingId \in {NoId} \cup Ids :
    checkConflictsCall(date, timeSlots, pitchType, excludeBookingId)
      /\ UNCHANGED <<view, live, sessions, now, issued, wizard, client>>

NextPure == CheckConflictsAny

SpecPure == InitPure /\ [][NextPure]_vars

(***************************************************************************)
(* Vocabulary of the properties.                                           *)
(***************************************************************************)
Elems(arr) == { arr[i] : i \in DOMAIN arr }

Rows == Elems(bookings)

SlotSet(b) == Elems(b.timeSlots)

\* the conflict rule of two records of one date
Conflicting(b1, b2) ==
  /\ SlotSet(b1) \cap SlotSet(b2) # {}
  /\ \/ b1.pitchType = "full_pitch"
     \/ b2.pitchType = "full_pitch"
     \/ b1.pitchType = b2.pitchType

\* the last storage call was checkConflicts; the table is as it was at the call
Checked == last.op = "checkConflicts"

Reported(b) == includes(last.result.conflictingBookings, b)

ReportedSlots == Elems(last.result.conflictingSlots)

\* slots the record shares with the request of the last check
Overlap(b) == SlotSet(b) \cap Elems(last.timeSlots)

\* an approved record of the requested date that the request does not exclude
Candidate(b) ==
  /\ b.status = "approved"
  /\ b.bookingDate = last.date
  /\ b.id # last.excludeBookingId

NoResult == [hasConflict |-> FALSE, conflictingBookings |-> <<>>, conflictingSlots |-> <<>>]

NoDuplicates(arr) == \A i, j \in DOMAIN arr : arr[i] = arr[j] => i = j

(***************************************************************************)
(* C1: in every reachable state of the store the approved records of one   *)
(* date are pairwise non-conflicting: no two of them share a slot while    *)
(* either is full_pitch or both have the same pitch type.                  *)
(***************************************************************************)
C1_ApprovedNonConflicting ==
  \A i, j \in DOMAIN bookings :
    ( /\ i # j
      /\ bookings[i].status = "approved"
      /\ bookings[j].status = "approved"
      /\ bookings[i].bookingDate = bookings[j].bookingDate )
    => ~Conflicting(bookings[i], bookings[j])

(***************************************************************************)
(* C2: two approvers that each saw no conflict for a pending request and   *)
(* then approved it never end with two conflicting requests of one date    *)
(* both approved.                                                          *)
(***************************************************************************)
C2_NoConcurrentDoubleApproval ==
  \A a1, a2 \in Approvers :
    ( /\ a1 # a2
      /\ approver[a1].pc = "done" /\ approver[a1].clear
      /\ approver[a2].pc = "done" /\ approver[a2].clear
      /\ approver[a1].id # approver[a2].id )
    => \A b1, b2 \in Rows :
         ( /\ b1.id = approver[a1].id /\ b2.id = approver[a2].id
           /\ b1.status = "approved" /\ b2.status = "approved"
           /\ b1.bookingDate = b2.bookingDate )
         => ~Conflicting(b1, b2)

(***************************************************************************)
(* C3: checkConflicts is blocked only by approved records: every reported  *)
(* record is approved, and the result is the one the approved records      *)
(* alone give, whatever pending and declined records the table holds.      *)
(***************************************************************************)
ApprovedOnly(rows) == SelectSeq(rows, LAMBDA b : b.status = "approved")

C3_OnlyApprovedBlocks ==
  Checked =>
    /\ \A b \in Rows : b.status # "approved" => ~Reported(b)
    /\ \A b \in Elems(last.result.conflictingBookings) : b.status = "approved"
    /\ last.result = checkConflicts(ApprovedOnly(bookings), last.date, last.timeSlots,
                                    last.pitchType, last.excludeBookingId)

\* a check whose slots overlap a pending and a declined record of its date,
\* same pitch type, and that reports no conflict
C3_Witness ==
  /\ Checked
  /\ ~last.result.hasConflict
  /\ \E b1, b2 \in Rows :
       /\ b1.status = "pending" /\ b2.status = "declined"
       /\ b1.bookingDate = last.date /\ b2.bookingDate = last.date
       /\ Overlap(b1) # {} /\ Overlap(b2) # {}
       /\ b1.pitchType = last.pitchType /\ b2.pitchType = last.pitchType

(***************************************************************************)
(* C4: granularity conflict rule.  For a requested pitch type that is      *)
(* single_court or full_pitch, an approved, non-excluded record of the     *)
(* requested date is reported iff its slots intersect the requested slots  *)
(* and either side is full_pitch or both have the same pitch type.         *)
(***************************************************************************)
C4_GranularityRule ==
  (Checked /\ last.pitchType \in PitchTypes) =>
    \A b \in Rows :
      Candidate(b) =>
        ( Reported(b) <=>
            /\ Overlap(b) # {}
            /\ \/ b.pitchType = "full_pitch"
               \/ last.pitchType = "full_pitch"
               \/ b.pitchType = last.pitchType )

\* a full_pitch request reported against an overlapping single_court record,
\* next to an approved record with no common slot that is not reported
C4_Witness ==
  /\ Checked
  /\ last.pitchType = "full_pitch"
  /\ \E b1, b2 \in Rows :
       /\ Candidate(b1) /\ b1.pitchType = "single_court"
       /\ Overlap(b1) # {} /\ Reported(b1)
       /\ Candidate(b2) /\ Overlap(b2) = {} /\ ~Reported(b2)

(***************************************************************************)
(* C5: an approved full_pitch record whose slots intersect the requested   *)
(* slots of its date makes hasConflict true for either requested pitch     *)
(* type; when it is the only approved record, conflictingSlots is exactly  *)
(* the intersection.                                                       *)
(***************************************************************************)
\* b is the only approved record of its date
OnlyApproved(b) ==
  \A b2 \in Rows :
    (b2.status = "approved" /\ b2.bookingDate = b.bookingDate) => b2 = b

C5_FullPitchBlocks ==
  Checked =>
    \A b \in Rows :
      (Candidate(b) /\ b.pitchType = "full_pitch" /\ Overlap(b) # {}) =>
        /\ last.result.hasConflict
        /\ Reported(b)
        /\ OnlyApproved(b) => ReportedSlots = Overlap(b)

\* scenario A: one approved full_pitch record on 18:00 and 18:30, a
\* single_court request for 18:30 and 19:00 conflicts on 18:30 alone
C5_Witness ==
  /\ Checked
  /\ last.date = "2025-06-01"
  /\ last.timeSlots = <<"18:30", "19:00">>
  /\ last.pitchType = "single_court"
  /\ \E b \in Rows :
       /\ Candidate(b) /\ OnlyApproved(b)
       /\ b.pitchType = "full_pitch"
       /\ b.timeSlots = <<"18:00", "18:30">>
  /\ last.result.hasConflict
  /\ last.result.conflictingSlots = <<"18:30">>

(***************************************************************************)
(* C6: an approved single_court record and a single_court request of its   *)
(* date with a common slot: a conflict is reported, every common slot is   *)
(* listed, and with no other approved record nothing else is listed.       *)
(***************************************************************************)
C6_SingleCourtOverlapExact ==
  (Checked /\ last.pitchType = "single_court") =>
    \A b \in Rows :
      (Candidate(b) /\ b.pitchType = "single_court" /\ Overlap(b) # {}) =>
        /\ last.result.hasConflict
        /\ Reported(b)
        /\ Overlap(b) \subseteq ReportedSlots
        /\ OnlyApproved(b) => ReportedSlots = Overlap(b)

\* a single_court request that shares only some of its slots with the one
\* approved single_court record
C6_Witness ==
  /\ Checked
  /\ last.pitchType = "single_court"
  /\ \E b \in Rows :
       /\ Candidate(b) /\ OnlyApproved(b)
       /\ b.pitchType = "single_court"
       /\ Overlap(b) # {}
       /\ Overlap(b) # SlotSet(b)
       /\ Overlap(b) # Elems(last.timeSlots)
       /\ ReportedSlots = Overlap(b)

(***************************************************************************)
(* C7: an approved single_court record and a single_court request of its   *)
(* date with no common slot: the record is not reported and none of its    *)
(* slots is listed.                                                        *)
(***************************************************************************)
C7_SingleCourtDisjointFree ==
  (Checked /\ last.pitchType = "single_court") =>
    \A b \in Rows :
      (Candidate(b) /\ b.pitchType = "single_court" /\ Overlap(b) = {}) =>
        /\ ~Reported(b)
        /\ ReportedSlots \cap SlotSet(b) = {}
        /\ OnlyApproved(b) => last.result = NoResult

C7_Witness ==
  /\ Checked
  /\ last.pitchType = "single_court"
  /\ \E b \in Rows :
       /\ Candidate(b) /\ OnlyApproved(b)
       /\ b.pitchType = "single_court"
       /\ Overlap(b) = {}
  /\ last.result = NoResult

(***************************************************************************)
(* C8: for a date with no approved record, whatever pending or declined    *)
(* records exist, checkConflicts returns hasConflict = FALSE with empty    *)
(* conflictingBookings and conflictingSlots.                               *)
(***************************************************************************)
C8_NoApprovedNoConflict ==
  Checked =>
    ( (\A b \in Rows : ~(b.status = "approved" /\ b.bookingDate = last.date))
      => last.result = NoResult )

\* a date without records is asked about while an approved record of another
\* date holds the requested slots
C8_Witness ==
  /\ Checked
  /\ last.excludeBookingId = NoId
  /\ \A b \in Rows : b.bookingDate # last.date
  /\ \E b \in Rows : b.status = "approved" /\ Overlap(b) # {}
  /\ last.result = NoResult

(***************************************************************************)
(* C9: with excludeBookingId given, the record of that id is not reported  *)
(* and adds no slot; the result is the one the other records give without  *)
(* any exclusion.                                                          *)
(***************************************************************************)
Without(rows, id) == SelectSeq(rows, LAMBDA b : b.id # id)

C9_ExcludeIgnoresRecord ==
  (Checked /\ last.excludeBookingId # NoId) =>
    /\ \A b \in Rows : b.id = last.excludeBookingId => ~Reported(b)
    /\ last.result = checkConflicts(Without(bookings, last.excludeBookingId), last.date,
                                    last.timeSlots, last.pitchType, NoId)

\* the excluded record is approved and overlaps the request, another approved
\* record is reported, and a slot only the excluded record shares is not listed
C9_Witness ==
  /\ Checked
  /\ \E b1, b2 \in Rows :
       /\ b1.id = last.excludeBookingId
       /\ b1.status = "approved" /\ b1.bookingDate = last.date
       /\ Overlap(b1) # {}
       /\ Candidate(b2) /\ Reported(b2)
       /\ Overlap(b1) \ Overlap(b2) # {}
       /\ ReportedSlots = Overlap(b2)

(***************************************************************************)
(* C10: conflictingSlots is a deduplicated union: no slot occurs in it     *)
(* more than once, and its elements are the union over the reported        *)
(* records of the slots each shares with the request.                      *)
(***************************************************************************)
C10_DeduplicatedUnion ==
  Checked =>
    /\ NoDuplicates(last.result.conflictingSlots)
    /\ ReportedSlots = UNION { Overlap(b) : b \in Elems(last.result.conflictingBookings) }

(***************************************************************************)
(* C11: once a record is approved, every checkConflicts call made while it *)
(* is approved, for its date, with at least one of its slots and without   *)
(* excluding its id, returns hasConflict = TRUE with that record among     *)
(* conflictingBookings: the result is computed from the table as it is at  *)
(* the call.                                                               *)
(***************************************************************************)
C11_ApprovedBlocksLaterChecks ==
  [][ last'.op = "checkConflicts" =>
        \A i \in DOMAIN bookings :
          ( /\ bookings[i].status = "approved"
            /\ bookings[i].bookingDate = last'.date
            /\ SlotSet(bookings[i]) \cap Elems(last'.timeSlots) # {}
            /\ bookings[i].id # last'.excludeBookingId )
          => /\ last'.result.hasConflict
             /\ includes(last'.result.conflictingBookings, bookings[i]) ]_vars

\* a check reports the record that was approved second, on one slot only
C11_Witness ==
  /\ Checked
  /\ \E b \in Rows :
       /\ b.id = 2
       /\ Candidate(b)
       /\ Cardinality(Overlap(b)) = 1
       /\ Reported(b)
       /\ last.result.conflictingBookings = <<b>>

(***************************************************************************)
(* Vocabulary of the availability properties.                              *)
(***************************************************************************)
\* the last call was an availability request that was answered with a view
Viewed == last.op = "getAvailability" /\ last.code = 200

Taken == last.result.takenSlots

Entry(slot, pitchType, status) ==
  [timeSlot |-> slot, pitchType |-> pitchType, status |-> status]

\* how many elements of arr equal x
Occ(arr, x) == Cardinality({ i \in DOMAIN arr : arr[i] = x })

\* table positions of the records of a date with a status
RowsOn(date, status) ==
  { i \in DOMAIN bookings :
      bookings[i].bookingDate = date /\ bookings[i].status = status }

\* how many slot elements equal to slot the records at the positions hold
RECURSIVE SlotOccurrences(_, _)
SlotOccurrences(positions, slot) ==
  IF positions = {} THEN 0
  ELSE LET i == CHOOSE x \in positions : TRUE
       IN Occ(bookings[i].timeSlots, slot) + SlotOccurrences(positions \ {i}, slot)

\* how many slot elements the records at the positions hold
RECURSIVE SlotTotal(_)
SlotTotal(positions) ==
  IF positions = {} THEN 0
  ELSE LET i == CHOOSE x \in positions : TRUE
       IN Len(bookings[i].timeSlots) + SlotTotal(positions \ {i})

RECURSIVE TotalSlots(_)
TotalSlots(bookingList) ==
  IF bookingList = <<>> THEN 0
  ELSE Len(Head(bookingList).timeSlots) + TotalSlots(Tail(bookingList))

KnownSlots ==
  UNION { SlotSet(b) : b \in Rows } \cup { Taken[i].timeSlot : i \in DOMAIN Taken }

(***************************************************************************)
(* C12: the availability view of a date has no entry from a declined       *)
(* record and exactly one entry per (record, slot element) pair of the     *)
(* pending and approved records of the date, each labelled with the        *)
(* record's pitch type and status.                                         *)
(***************************************************************************)
C12_OneEntryPerRecordSlot ==
  Viewed =>
    /\ \A i \in DOMAIN Taken : Taken[i].status \in {"approved", "pending"}
    /\ \A slot \in KnownSlots, pitchType \in PitchTypes, status \in {"approved", "pending"} :
         Occ(Taken, Entry(slot, pitchType, status)) =
           SlotOccurrences({ i \in RowsOn(last.date, status) :
                               bookings[i].pitchType = pitchType }, slot)
    /\ Len(Taken) = SlotTotal(RowsOn(last.date, "approved") \cup RowsOn(last.date, "pending"))

\* a declined record whose slots the view does not show, next to a pending
\* record whose repeated slot is listed once per element
C12_Witness ==
  /\ Viewed
  /\ \E b1, b2 \in Rows :
       /\ b1.status = "declined" /\ b1.bookingDate = last.date
       /\ \A i \in DOMAIN Taken : Taken[i].timeSlot \notin SlotSet(b1)
       /\ b2.status = "pending" /\ b2.bookingDate = last.date
       /\ Cardinality(SlotSet(b2)) = 1
       /\ Len(Taken) = 2

(***************************************************************************)
(* C13: a pending record is advisory, not blocking: the availability view  *)
(* of its date lists each of its slots with status pending, while          *)
(* checkConflicts for its date and slots does not report it (and reports   *)
(* nothing when the date has no approved record).                          *)
(***************************************************************************)
ListedPending(b, takenSlots) ==
  \A slot \in SlotSet(b) : includes(takenSlots, Entry(slot, b.pitchType, "pending"))

CurrentView(date) ==
  availabilityView(date, getApprovedBookingsByDate(bookings, date),
                   getBookingsByDateAndStatus(bookings, date, "pending"))

C13_PendingAdvisoryNotBlocking ==
  \A b \in Rows :
    b.status = "pending" =>
      /\ (Viewed /\ last.date = b.bookingDate) =>
           /\ ListedPending(b, Taken)
           /\ ~includes(checkConflicts(bookings, b.bookingDate, b.timeSlots, b.pitchType,
                                       NoId).conflictingBookings, b)
      /\ (Checked /\ last.date = b.bookingDate /\ last.timeSlots = b.timeSlots) =>
           /\ ~Reported(b)
           /\ RowsOn(last.date, "approved") = {} => ~last.result.hasConflict
           /\ ListedPending(b, CurrentView(b.bookingDate).takenSlots)

\* scenario C: one pending single_court record; a single_court check of its
\* date and slots finds no conflict while the view of the date lists its slots
C13_Witness ==
  /\ Checked
  /\ Len(bookings) = 1
  /\ bookings[1].status = "pending"
  /\ bookings[1].pitchType = "single_court"
  /\ last.date = bookings[1].bookingDate
  /\ last.timeSlots = bookings[1].timeSlots
  /\ last.pitchType = "single_court"
  /\ last.result = NoResult
  /\ Len(CurrentView(last.date).takenSlots) = Len(bookings[1].timeSlots)
  /\ \A i \in DOMAIN CurrentView(last.date).takenSlots :
       CurrentView(last.date).takenSlots[i].status = "pending"

(***************************************************************************)
(* C14: in takenSlots every approved entry precedes every pending entry,   *)
(* and within each status group the entries follow the order in which the  *)
(* records were retrieved, the entries of one record being contiguous.     *)
(***************************************************************************)
\* the records of the view in retrieval order, approved ones first
Retrieved(date) ==
  getApprovedBookingsByDate(bookings, date)
    \o getBookingsByDateAndStatus(bookings, date, "pending")

\* where the entries of the k-th retrieved record start
Offset(list, k) == TotalSlots(SubSeq(list, 1, k - 1))

C14_ApprovedBeforePending ==
  Viewed =>
    /\ \A i, j \in DOMAIN Taken :
         (Taken[i].status = "pending" /\ Taken[j].status = "approved") => j < i
    /\ Len(Taken) = TotalSlots(Retrieved(last.date))
    /\ \A k \in DOMAIN Retrieved(last.date) :
         \A n \in DOMAIN Retrieved(last.date)[k].timeSlots :
           Taken[Offset(Retrieved(last.date), k) + n] =
             Entry(Retrieved(last.date)[k].timeSlots[n],
                   Retrieved(last.date)[k].pitchType,
                   Retrieved(last.date)[k].status)

\* the record created second is approved, the first still pending: the
\* entries of the second come first
C14_Witness ==
  /\ Viewed
  /\ Len(bookings) = 2
  /\ bookings[1].status = "pending" /\ bookings[1].bookingDate = last.date
  /\ bookings[2].status = "approved" /\ bookings[2].bookingDate = last.date
  /\ bookings[1].timeSlots # bookings[2].timeSlots
  /\ Len(Taken) = 4
  /\ Taken[1] = Entry(bookings[2].timeSlots[1], bookings[2].pitchType, "approved")
  /\ Taken[4] = Entry(bookings[1].timeSlots[2], bookings[1].pitchType, "pending")

(***************************************************************************)
(* C16: approvedBookingsCount and pendingBookingsCount are the numbers of  *)
(* approved and of pending records of the date, not of slot entries.       *)
(***************************************************************************)
C16_CountsAreRecords ==
  Viewed =>
    /\ last.result.approvedBookingsCount = Cardinality(RowsOn(last.date, "approved"))
    /\ last.result.pendingBookingsCount = Cardinality(RowsOn(last.date, "pending"))

\* one approved and one pending record, two entries of each status
C16_Witness ==
  /\ Viewed
  /\ last.result.approvedBookingsCount = 1
  /\ last.result.pendingBookingsCount = 1
  /\ Cardinality({ i \in DOMAIN Taken : Taken[i].status = "approved" }) = 2
  /\ Cardinality({ i \in DOMAIN Taken : Taken[i].status = "pending" }) = 2

(***************************************************************************)
(* C15: in the availability view the entries that come from one record     *)
(* list that record's slots in ascending order, for every record the       *)
(* creation endpoint stores.                                               *)
(***************************************************************************)
\* the slots of the model in the order of the clock grid, which is also the
\* order of their strings
TimeGrid == <<"18:00", "18:30", "19:00">>

Rank(slot) == CHOOSE i \in DOMAIN TimeGrid : TimeGrid[i] = slot

\* the records the finished request read, approved ones first
ViewRecords == view.approvedBookings \o view.pendingBookings

C15_SlotsAscendingPerRecord ==
  view.pc = "done" =>
    \A k \in DOMAIN ViewRecords :
      \A n, m \in 1..Len(ViewRecords[k].timeSlots) :
        n < m =>
          Rank(view.result.takenSlots[Offset(ViewRecords, k) + n].timeSlot)
            <= Rank(view.result.takenSlots[Offset(ViewRecords, k) + m].timeSlot)

(***************************************************************************)
(* C17: an availability request returns the view of one snapshot of the    *)
(* table: no record is read under two statuses, and no record that was     *)
(* pending or approved at every moment of the request is missing.          *)
(***************************************************************************)
C17_ViewIsOneSnapshot ==
  view.pc = "done" =>
    /\ \A i \in DOMAIN view.approvedBookings, j \in DOMAIN view.pendingBookings :
         view.approvedBookings[i].id # view.pendingBookings[j].id
    /\ \A id \in live : \E k \in DOMAIN ViewRecords : ViewRecords[k].id = id

(***************************************************************************)
(* C18: every record created through the booking-creation endpoint has     *)
(* status pending and no admin note at creation, whatever the request body *)
(* carries, a status value included.                                       *)
(***************************************************************************)
Created == last.op = "POST /api/bookings" /\ last.code = 201

C18_CreatedPending ==
  Created =>
    /\ last.result.status = "pending"
    /\ last.result.adminNotes = NoNotes
    /\ bookings[Len(bookings)] = last.result

\* a body that supplies a status and an admin note is stored as pending
C18_Witness ==
  /\ Created
  /\ "status" \in DOMAIN last.body
  /\ "adminNotes" \in DOMAIN last.body
  /\ last.body.status = "declined"
  /\ bookings[Len(bookings)].status = "pending"
  /\ bookings[Len(bookings)].adminNotes = NoNotes

(***************************************************************************)
(* C19: every status change is pending to approved or pending to declined: *)
(* updateBookingStatus never changes the status of a record whose current  *)
(* status is approved or declined.                                         *)
(***************************************************************************)
C19_OnlyFromPending ==
  [][ \A i \in DOMAIN bookings :
        bookings[i].status \in {"approved", "declined"} =>
          bookings'[i].status = bookings[i].status ]_vars

(***************************************************************************)
(* C20: no record whose status is approved or declined is ever moved back  *)
(* to pending through the status update.                                   *)
(***************************************************************************)
C20_NeverBackToPending ==
  [][ \A i \in DOMAIN bookings :
        bookings[i].status \in {"approved", "declined"} =>
          bookings'[i].status # "pending" ]_vars

(***************************************************************************)
(* Vocabulary of the properties of the HTTP surface.                       *)
(***************************************************************************)
Patch == "PATCH /api/bookings/:id/status"

\* the step is a request that was served: every handler leaves the clock
\* alone and records itself in last, the passing of time does neither
Served == now' = now

\* the header names a session of the map that has not expired
ValidSession(sessionId) ==
  \E s \in DOMAIN sessions : s = sessionId /\ sessions[s] >= now

\* table positions of the records a path id addresses
Addressed(id) == { i \in DOMAIN bookings : bookings[i].id = id }

(***************************************************************************)
(* C21: the status update does not guard on the current state: an          *)
(* authenticated update to approved of an existing declined record is      *)
(* accepted (200) and leaves the record approved.                          *)
(***************************************************************************)
C21_DeclinedToApprovedAccepted ==
  [][ ( /\ Served
        /\ last'.op = Patch
        /\ ValidSession(last'.sessionId)
        /\ last'.body.status = "approved" )
      => \A i \in Addressed(last'.id) :
           bookings[i].status = "declined" =>
             /\ last'.code = 200
             /\ bookings'[i].status = "approved"
             /\ last'.result = <<bookings'[i]>> ]_vars

\* an approved record that carries the note of its earlier decline
C21_Witness ==
  /\ last.op = Patch
  /\ last.code = 200
  /\ last.body.status = "approved"
  /\ \E i \in Addressed(last.id) :
       /\ bookings[i].status = "approved"
       /\ bookings[i].adminNotes = "ok"

(***************************************************************************)
(* C22: a status update addressed to an id no record has signals NotFound  *)
(* (updateBookingStatus returns no record, the endpoint answers 404) and   *)
(* leaves every record of the store unchanged.                             *)
(***************************************************************************)
C22_UnknownIdNotFound ==
  [][ ( /\ Served
        /\ last'.op = Patch
        /\ ValidSession(last'.sessionId)
        /\ last'.body.status \in Statuses
        /\ Addressed(last'.id) = {} )
      => /\ last'.code = 404
         /\ last'.result = <<>>
         /\ bookings' = bookings ]_vars

\* a 404 for an id beyond a table that holds records
C22_Witness ==
  /\ last.op = Patch
  /\ last.code = 404
  /\ last.body.status = "declined"
  /\ Len(bookings) >= 1
  /\ Addressed(last.id) = {}
  /\ \A i \in DOMAIN bookings : bookings[i].adminNotes = NoNotes

(***************************************************************************)
(* C23: a status update whose status is outside pending, approved,         *)
(* declined is rejected with an error, 400 once the request has passed the *)
(* session gate, before the store is touched: the addressed record's       *)
(* status and admin note and every other record are unchanged.             *)
(***************************************************************************)
C23_InvalidStatusRejected ==
  [][ ( /\ Served
        /\ last'.op = Patch
        /\ last'.body.status \notin Statuses )
      => /\ last'.code \in {400, 401}
         /\ ValidSession(last'.sessionId) => last'.code = 400
         /\ bookings' = bookings ]_vars

\* the rejected update addressed an existing record and carried a note the
\* record does not have
C23_Witness ==
  /\ last.op = Patch
  /\ last.code = 400
  /\ last.body.status = "cancelled"
  /\ \E i \in Addressed(last.id) :
       /\ bookings[i].status = "approved"
       /\ bookings[i].adminNotes # last.body.adminNotes

(***************************************************************************)
(* C24: the privileged routes (listing, fetch by id, status update) answer *)
(* 401 and leave the store unchanged when the request carries no currently *)
(* valid session id; creation, the conflict pre-check and the availability *)
(* view answer a well-formed request with success whatever sessions exist. *)
(***************************************************************************)
Privileged == {"GET /api/bookings", "GET /api/bookings/:id", Patch}

C24_PrivilegedGated ==
  [][ Served =>
        /\ (last'.op \in Privileged /\ ~ValidSession(last'.sessionId)) =>
             /\ last'.code = 401
             /\ bookings' = bookings
        /\ (last'.op \in Privileged /\ ValidSession(last'.sessionId)) =>
             last'.code # 401
        /\ (last'.op = "POST /api/bookings" /\ Len(last'.body.timeSlots) >= 1) =>
             last'.code = 201
        /\ (last'.op = "POST /api/bookings/check-conflicts"
              /\ Len(last'.body.timeSlots) >= 1) =>
             last'.code = 200
        /\ (last'.op = "getAvailability" /\ last'.date \in Dates) =>
             last'.code = 200 ]_vars

\* an update of an existing record refused for a session that has expired
C24_Witness ==
  /\ last.op = Patch
  /\ last.code = 401
  /\ last.sessionId \in SessionIds
  /\ last.body.status = "approved"
  /\ now > SessionTtl
  /\ \E i \in Addressed(last.id) : bookings[i].status = "pending"

(***************************************************************************)
(* C25: every reservation submitted through the creation endpoint is       *)
(* checked against the approved reservations of its date before it is      *)
(* persisted: the handler calls checkConflicts before createBooking.       *)
(***************************************************************************)
C25_CheckedBeforeInsert ==
  Created =>
    \E i, j \in DOMAIN last.calls :
      /\ i < j
      /\ last.calls[i] = "checkConflicts"
      /\ last.calls[j] = "createBooking"

(***************************************************************************)
(* C26: the conflict pre-check and the availability view have no side      *)
(* effects: after either call the records and every field of every record  *)
(* are as before the call.                                                 *)
(***************************************************************************)
C26_ReadsHaveNoEffect ==
  [][ ( /\ Served
        /\ last'.op \in {"POST /api/bookings/check-conflicts", "getAvailability"} )
      => /\ bookings' = bookings
         /\ sessions' = sessions ]_vars

\* a pre-check that found a conflict in a table of two records
C26_Witness ==
  /\ last.op = "POST /api/bookings/check-conflicts"
  /\ last.code = 200
  /\ last.result.hasConflict
  /\ Len(bookings) = 2
  /\ \E i \in DOMAIN bookings : bookings[i].status = "pending"

Variants(timeSlots) == { ts \in RequestLists : Elems(ts) = Elems(timeSlots) }

C28_OrderAndRepeatIrrelevant ==
  Checked =>
    \A ts \in Variants(last.timeSlots) :
      LET other == checkConflicts(bookings, last.date, ts, last.pitchType,
                                  last.excludeBookingId)
      IN /\ other.hasConflict = last.result.hasConflict
         /\ other.conflictingBookings = last.result.conflictingBookings
         /\ Elems(other.conflictingSlots) = ReportedSlots

\* a request with a repeated slot, out of order, that conflicts on the
\* repeated slot only
C28_Witness ==
  /\ Checked
  /\ last.timeSlots = <<"18:30", "18:30", "18:00">>
  /\ last.result.hasConflict
  /\ ReportedSlots = {"18:30"}
  /\ Cardinality(Variants(last.timeSlots)) = 3

(***************************************************************************)
(* C29: checkConflicts called with an empty slot list returns              *)
(* hasConflict = FALSE with empty conflictingBookings and conflictingSlots *)
(* for every store, without raising an error.                              *)
(***************************************************************************)
C29_EmptyRequestNoConflict ==
  (Checked /\ last.timeSlots = <<>>) => last.result = NoResult

\* the empty request against a date with approved records of both pitch types
C29_Witness ==
  /\ Checked
  /\ last.timeSlots = <<>>
  /\ last.excludeBookingId = NoId
  /\ \E b1, b2 \in Rows :
       /\ Candidate(b1) /\ b1.pitchType = "full_pitch"
       /\ Candidate(b2) /\ b2.pitchType = "single_court"
  /\ last.result = NoResult

(***************************************************************************)
(* C30: no operation removes a record: a record that has been created is   *)
(* in the store, under its id, in every later state.                       *)
(***************************************************************************)
C30_NoRecordRemoved ==
  [][ /\ Len(bookings') >= Len(bookings)
      /\ \A i \in DOMAIN bookings : bookings'[i].id = bookings[i].id ]_vars

\* a declined record is still in a full table
C30_Witness ==
  /\ Len(bookings) = MaxBookings
  /\ last.op = Patch
  /\ last.code = 200
  /\ \E i \in Addressed(last.id) : bookings[i].status = "declined"

(***************************************************************************)
(* C31: a successful status update changes only the status and the admin   *)
(* note of the addressed record: its id, creation timestamp, booking date, *)
(* time slots, pitch type and requester fields, and every field of every   *)
(* other record, are unchanged.                                            *)
(***************************************************************************)
C31_UpdateChangesStatusAndNoteOnly ==
  [][ (Served /\ last'.op = Patch /\ last'.code = 200) =>
        /\ Len(bookings') = Len(bookings)
        /\ \A i \in DOMAIN bookings :
             IF i \in Addressed(last'.id)
             THEN \A f \in DOMAIN bookings[i] \ {"status", "adminNotes"} :
                    bookings'[i][f] = bookings[i][f]
             ELSE bookings'[i] = bookings[i] ]_vars

\* the second of two records was declined with a note, the first is as created
C31_Witness ==
  /\ last.op = Patch
  /\ last.code = 200
  /\ last.id = 2
  /\ Len(bookings) = 2
  /\ bookings[2].status = "declined" /\ bookings[2].adminNotes = "ok"
  /\ bookings[2].createdAt = 2 /\ bookings[2].name = "Ana"
  /\ bookings[1].status = "pending" /\ bookings[1].adminNotes = NoNotes

(***************************************************************************)
(* C32: the admin note of a record is set only during a status             *)
(* transition: a record is created without one, whatever the submission    *)
(* carries, and the note of a record changes only in a status update that  *)
(* carries a note, to that note.                                           *)
(***************************************************************************)
C32_NoteSetOnlyByStatusUpdate ==
  [][ /\ \A i \in DOMAIN bookings' \ DOMAIN bookings :
           bookings'[i].adminNotes = NoNotes
      /\ \A i \in DOMAIN bookings :
           bookings'[i].adminNotes # bookings[i].adminNotes =>
             /\ last'.op = Patch
             /\ last'.code = 200
             /\ i \in Addressed(last'.id)
             /\ "adminNotes" \in DOMAIN last'.body
             /\ bookings'[i].adminNotes = last'.body.adminNotes ]_vars

\* a record created from a submission with a note has none, next to a record
\* that got its note in a status update
C32_Witness ==
  /\ Created
  /\ "adminNotes" \in DOMAIN last.body
  /\ Len(bookings) = 2
  /\ bookings[2].adminNotes = NoNotes
  /\ bookings[1].adminNotes = "ok"

(***************************************************************************)
(* C33: every record created through the booking-creation endpoint has at  *)
(* least one time slot; a submission with an empty slot list is rejected   *)
(* with a validation error (400) and creates no record.                    *)
(***************************************************************************)
C33_AtLeastOneSlot ==
  /\ \A b \in Rows : Len(b.timeSlots) >= 1
  /\ (last.op = "POST /api/bookings" /\ last.body.timeSlots = <<>>) =>
       /\ last.code = 400
       /\ last.calls = <<>>

\* an empty submission refused after a record with slots was created
C33_Witness ==
  /\ last.op = "POST /api/bookings"
  /\ last.body.timeSlots = <<>>
  /\ last.code = 400
  /\ Len(bookings) = 1
  /\ Len(bookings[1].timeSlots) = 2

(***************************************************************************)
(* C34: checkConflicts and the availability view are scoped to the         *)
(* requested date: records of another date are never among                 *)
(* conflictingBookings, add nothing to conflictingSlots or hasConflict,    *)
(* and are neither in takenSlots nor in the two counts.                    *)
(***************************************************************************)
OnDate(rows, date) == SelectSeq(rows, LAMBDA b : b.bookingDate = date)

C34_ScopedToDate ==
  /\ Checked =>
       /\ \A b \in Elems(last.result.conflictingBookings) : b.bookingDate = last.date
       /\ last.result = checkConflicts(OnDate(bookings, last.date), last.date,
                                       last.timeSlots, last.pitchType,
                                       last.excludeBookingId)
  /\ Viewed =>
       /\ last.result =
            availabilityView(last.date,
                             getApprovedBookingsByDate(OnDate(bookings, last.date),
                                                       last.date),
                             getBookingsByDateAndStatus(OnDate(bookings, last.date),
                                                        last.date, "pending"))
       /\ Len(Taken) = SlotTotal(RowsOn(last.date, "approved")
                                   \cup RowsOn(last.date, "pending"))
       /\ last.result.approvedBookingsCount + last.result.pendingBookingsCount
            <= Cardinality({ i \in DOMAIN bookings : bookings[i].bookingDate = last.date })

\* the view of a date without records is empty while another date has an
\* approved and a pending record
C34_Witness ==
  /\ Viewed
  /\ Taken = <<>>
  /\ last.result.approvedBookingsCount = 0
  /\ last.result.pendingBookingsCount = 0
  /\ \E b1, b2 \in Rows :
       /\ b1.status = "approved" /\ b1.bookingDate # last.date
       /\ b2.status = "pending" /\ b2.bookingDate # last.date

(***************************************************************************)
(* C35: the three fields of a checkConflicts result agree: hasConflict is  *)
(* true iff conflictingBookings is non-empty and iff conflictingSlots is   *)
(* non-empty; each conflicting record is in conflictingBookings exactly    *)
(* once, and every slot of conflictingSlots is a requested slot.           *)
(***************************************************************************)
C35_ResultFieldsAgree ==
  Checked =>
    /\ last.result.hasConflict <=> last.result.conflictingBookings # <<>>
    /\ last.result.hasConflict <=> last.result.conflictingSlots # <<>>
    /\ NoDuplicates(last.result.conflictingBookings)
    /\ \A b \in Rows :
         (Candidate(b) /\ Overlap(b) # {} /\ Conflicting(b, last)) =>
           Occ(last.result.conflictingBookings, b) = 1
    /\ ReportedSlots \subseteq Elems(last.timeSlots)

\* two records reported, of three requested slot elements two are listed
C35_Witness ==
  /\ Checked
  /\ Len(last.timeSlots) = 3
  /\ Len(last.result.conflictingBookings) = 2
  /\ Cardinality(ReportedSlots) = 2
  /\ last.result.hasConflict

(***************************************************************************)
(* Vocabulary of the session properties.                                   *)
(***************************************************************************)
LoginOp == "POST /api/admin/login"

\* an existing username with its password
RightCredentials == [username |-> "admin", password |-> "admin123"]

\* the id was issued by a successful login, has not been logged out since,
\* and the clock is not past 24 hours after that login
Entitled(sessionId) ==
  \E s \in DOMAIN issued :
    /\ s = sessionId
    /\ ~issued[s].out
    /\ now <= issued[s].at + SessionTtl

\* the id has been logged out, or turned away by isAuthenticated as expired
Rejected(sessionId) ==
  \E s \in DOMAIN issued : s = sessionId /\ (issued[s].out \/ issued[s].rejected)

(***************************************************************************)
(* C36: a session id is accepted by isAuthenticated iff it was issued by a *)
(* successful login (existing username, matching password), has not been  *)
(* logged out since, and the time is not later than its expiry, 24 hours   *)
(* after that login; a failed login issues no session.                     *)
(***************************************************************************)
C36_AcceptedIffIssuedAndFresh ==
  [][ Served =>
        /\ last'.op = "GET /api/admin/me" =>
             (last'.code = 200 <=> Entitled(last'.sessionId))
        /\ last'.op = LoginOp =>
             /\ last'.code = 200 <=> last'.credentials = RightCredentials
             /\ last'.code # 200 => sessions' = sessions
             /\ last'.code = 200 =>
                  /\ DOMAIN sessions' = DOMAIN sessions \cup {last'.sessionId}
                  /\ sessions'[last'.sessionId] = now + SessionTtl ]_vars

\* the second id is accepted at the last moment of its 24 hours, after the
\* first was logged out
C36_Witness ==
  /\ last.op = "GET /api/admin/me"
  /\ last.code = 200
  /\ last.sessionId = "s2"
  /\ now = issued["s2"].at + SessionTtl
  /\ "s1" \in DOMAIN issued
  /\ issued["s1"].out

(***************************************************************************)
(* C37: session rejection is permanent: once an id has been logged out, or *)
(* turned away by isAuthenticated as expired, its entry is out of the map  *)
(* and the id is never accepted again; an expired session that is not      *)
(* presented again stays in the map (no expiry sweep).                     *)
(***************************************************************************)
C37_RejectionIsPermanent ==
  [][ /\ \A s \in DOMAIN issued' : Rejected(s)' => s \notin DOMAIN sessions'
      /\ \A s \in DOMAIN issued :
           Rejected(s) =>
             ~(Served /\ last'.op = "GET /api/admin/me" /\ last'.sessionId = s
                 /\ last'.code = 200 /\ last' # last)
      /\ \A s \in DOMAIN sessions \ DOMAIN sessions' :
           /\ Served
           /\ last'.op \in {"GET /api/admin/me", "POST /api/admin/logout"}
           /\ last'.sessionId = s ]_vars

\* one id was turned away as expired and is gone; the other expired at the
\* same time, was not presented, and is still in the map
C37_Witness ==
  /\ last.op = "GET /api/admin/me"
  /\ last.code = 401
  /\ last.sessionId = "s2"
  /\ "s2" \in DOMAIN issued
  /\ issued["s2"].rejected
  /\ "s2" \notin DOMAIN sessions
  /\ "s1" \in DOMAIN sessions
  /\ now > sessions["s1"]

(***************************************************************************)
(* Vocabulary of the wizard property.                                      *)
(***************************************************************************)
\* every field shown at step n satisfies its rule of the form schema
StepValid(values, n) == \A field \in STEPS[n] : formSchema(values, field)

(***************************************************************************)
(* C38: the wizard's step stays within 1..4, moves forward only by one     *)
(* step and only when the current step's fields validate, so step 4 is     *)
(* shown only when the fields of steps 1, 2 and 3 are all valid, also      *)
(* after going back through Back or Edit.                                  *)
(***************************************************************************)
C38_StepFourOnlyWhenValid ==
  [][ /\ wizard'.step \in 1..4
      /\ wizard'.step <= wizard.step + 1
      /\ wizard'.step = wizard.step + 1 => StepValid(wizard.values, wizard.step)
      /\ wizard'.step = 4 => \A n \in 1..3 : StepValid(wizard'.values, n) ]_vars

\* the review step, reached again after going back and changing the
\* pitch and the slots
C38_Witness ==
  /\ wizard.step = 4
  /\ wizard.returned
  /\ wizard.values.pitchType = "full_pitch"
  /\ Len(wizard.values.timeSlots) = 2
  /\ wizard.isPending

(***************************************************************************)
(* Vocabulary of the client property.                                      *)
(***************************************************************************)
\* the stored id is one the server does not accept
Unaccepted ==
  /\ client.sessionId # NoSession
  /\ ~ValidSession(client.sessionId)

\* the dashboard has just been opened
Opened == client.page = "/admin/dashboard" /\ client.entered

\* on the login page with no stored id
LoggedOut == client.page = "/admin" /\ client.sessionId = NoSession

(***************************************************************************)
(* C39: when the client holds a session id the server no longer accepts,   *)
(* opening the dashboard eventually ends on the login page with the stored *)
(* id cleared; the pages themselves never leave that state (the login page *)
(* does not redirect back).                                                *)
(***************************************************************************)
C39_StaleSessionEndsOnLogin ==
  /\ (Opened /\ Unaccepted) ~> LoggedOut
  /\ [][LoggedOut /\ ~LoggedOut' => AdminActs]_vars

====
